---- MODULE Spec2Model ----
(***************************************************************************)
(* Room synchronisation of the "Imposter Keda" party game.                 *)
(*                                                                         *)
(* Two variants of the same core live in the repository:                   *)
(*   - the document-store variant (src/src/App.tsx, latest App component): *)
(*     one room document in a document store, each participant holds a     *)
(*     local copy `room` (React state) refreshed by a snapshot listener    *)
(*     and every handler computes its write from that local copy;          *)
(*   - the mesh variant (src/unnamed/part_001 GameManager and its UI in    *)
(*     src/unnamed/part_000): the host owns the RoomState, guests send     *)
(*     ACTION messages and receive STATE_SYNC messages.                    *)
(* The earlier App component of src/src/sounds.ts differs from the latest  *)
(* one in passTurn and nextTurn; its handlers are modelled for the rounds. *)
(***************************************************************************)
EXTENDS Integers, Sequences, FiniteSets, TLC

VARIABLES
    room,      \* document store: the room document, or NoRoom before createRoom
    local,     \* document store: each participant's React state `room`
    adv,       \* document store: per participant, the `room` closure of a passTurn
               \*   whose nextTurn() call has not written yet (NoRoom when none)
    pend,      \* document store: the result write calculateResults has issued and
               \*   the store has not applied yet (NoWrite when none)
    now,       \* document store: the value the next Date.now() returns
    games,     \* document store: the startGame writes counted against MaxGames
    races,     \* document store: number of times a local copy fell behind or was
               \*   dropped (bounded)
    lag,       \* document store: the participants whose listener is behind
    mhost,     \* mesh: the peer that created the room (Null before)
    mstate,    \* mesh: the host's GameManager.state
    mview,     \* mesh: each guest's GameManager.state (its last STATE_SYNC)
    mconn,     \* mesh: the guests whose connection to the host is open
    mbox,      \* mesh: per guest, the ACTION messages in flight to the host
    mlag,      \* mesh: the guests with STATE_SYNC messages still in flight
    mtimer,    \* mesh: the host's 3 s reveal timer is armed
    mgames,    \* mesh: the START_GAME actions counted against MaxGames
    mraces,    \* mesh: number of delayed syncs and closed connections (bounded)
    mdup,      \* mesh: the senders of JOIN actions the host handled while they
               \*   were players already
    macks,     \* mesh: the senders of the PASS_TURN actions the host has handled
               \*   since the turn-holder last changed
    advances,  \* number of nextTurn calls made since round 1, turn 0, per variant
    eroom      \* document store, earlier App component (src/src/sounds.ts): the
               \*   room document, or NoRoom

docVars == <<room, local, adv, pend, now, games, races, lag>>
meshVars == <<mhost, mstate, mview, mconn, mbox, mlag, mtimer, mgames, mraces, mdup,
              macks>>

vars == <<room, local, adv, pend, now, games, races, lag,
          mhost, mstate, mview, mconn, mbox, mlag, mtimer, mgames, mraces, mdup,
          macks, advances, eroom>>

----------------------------------------------------------------------------
(* Bounds of the model *)

Users == {"u1", "u2"}
MaxGames == 1
MaxRaces == 1
MaxChats == 1

Words == {"Pizza"}

----------------------------------------------------------------------------
(* Helpers *)

Min(a, b) == IF a <= b THEN a ELSE b

EmptyMap == [x \in {} |-> x]

Range(s) == {s[i] : i \in DOMAIN s}

\* all orderings of a finite set, as sequences without repetition
Perms(S) == {s \in [1..Cardinality(S) -> S] : Range(s) = S}

\* Firestore arrayUnion: append the element unless the array already holds it
arrayUnion(arr, e) == IF e \in Range(arr) THEN arr ELSE Append(arr, e)

NoRoom == [state |-> "none"]
NoWrite == [kind |-> "none"]

Null == "null"

----------------------------------------------------------------------------
(* Document-store variant: data *)

\* a player's display name is the profile name of its uid
Name(id) == id

NewPlayer ==
    [score |-> 0, lastScoreGain |-> 0, role |-> "", isRoleRevealed |-> FALSE,
     passedTurn |-> {}]

MaxRounds == 3

initialRoom(uid) ==
    [hostId |-> uid,
     state |-> "lobby",
     word |-> "",
     imposterIds |-> {},
     imposterCount |-> 1,
     round |-> 1,
     maxRounds |-> MaxRounds,
     players |-> (uid :> NewPlayer),
     turnOrder |-> <<>>,
     currentTurnIndex |-> 0,
     votes |-> EmptyMap,
     chats |-> <<>>,
     historyLog |-> <<>>]

SystemChat(text, t) ==
    [senderId |-> "none", recipientId |-> "none", sender |-> "System",
     msg |-> text, time |-> t]

\* the part of the room document that handlers and the rendered controls read
\* from the local copy; the two logs are only shown
View(s) ==
    IF s = NoRoom THEN NoRoom
    ELSE [s EXCEPT !.chats = <<>>, !.historyLog = <<>>]

----------------------------------------------------------------------------
(* Document-store variant: the handlers' writes.  r is the handler's `room`   *)
(* closure (the local copy), s the document the write is applied to.         *)

\* joinRoom that also writes hostId: the last to join owns the room
joinRoomAsHost(s, uid) ==
    [s EXCEPT !.players = (uid :> NewPlayer) @@ s.players, !.hostId = uid]

joinRoom(s, uid) ==
    [s EXCEPT !.players = (uid :> NewPlayer) @@ s.players]

ImposterTotal(r) ==
    LET n == Cardinality(DOMAIN r.players)
        half == n \div 2
    IN  Min(IF r.imposterCount = 0 THEN 1 ELSE r.imposterCount,
            IF half = 0 THEN 1 ELSE half)

\* the imposter sets shuffled.slice(0, count) can yield
ImposterChoices(r) ==
    LET pIds == DOMAIN r.players
        k == Min(ImposterTotal(r), Cardinality(pIds))
    IN  {S \in SUBSET pIds : Cardinality(S) = k}

startGame(r, s, imposterIds, order, secretWord, t) ==
    LET pIds == DOMAIN r.players
        updatedPlayers ==
            [id \in pIds |->
                [r.players[id] EXCEPT
                    !.role = IF id \in imposterIds THEN "Imposter" ELSE "Crew",
                    !.passedTurn = {},
                    !.isRoleRevealed = FALSE]]
    IN  [s EXCEPT !.state = "playing",
                  !.word = secretWord,
                  !.imposterIds = imposterIds,
                  !.players = updatedPlayers,
                  !.turnOrder = order,
                  !.currentTurnIndex = 0,
                  !.votes = EmptyMap,
                  !.chats = arrayUnion(s.chats,
                                SystemChat(<<"Game Started", ImposterTotal(r)>>, t))]

sendChat(s, uid, recipient, t) ==
    [s EXCEPT !.chats = arrayUnion(s.chats,
        [senderId |-> uid, recipientId |-> recipient, sender |-> Name(uid),
         msg |-> <<"chat">>, time |-> t])]

setImposterCount(s, n) == [s EXCEPT !.imposterCount = n]

revealRole(s, uid) == [s EXCEPT !.players[uid].isRoleRevealed = TRUE]

newPassedBy(r, targetId, uid) == r.players[targetId].passedTurn \cup {uid}

passTurn(r, s, targetId, uid) ==
    [s EXCEPT !.players[targetId].passedTurn = newPassedBy(r, targetId, uid)]

\* the test after the write in passTurn that calls nextTurn()
PassMajority(r, targetId, uid) ==
    2 * Cardinality(newPassedBy(r, targetId, uid)) > Cardinality(DOMAIN r.players)

\* nextTurn with >= for > in the test that ends the last round
nextTurnEarly(r, s) ==
    LET wraps == r.currentTurnIndex + 1 >= Len(r.turnOrder)
        nextIndex == IF wraps THEN 0 ELSE r.currentTurnIndex + 1
        nextRound == IF wraps THEN r.round + 1 ELSE r.round
        nextState == IF wraps /\ nextRound >= r.maxRounds THEN "voting" ELSE "playing"
    IN  [s EXCEPT !.currentTurnIndex = nextIndex,
                  !.round = nextRound,
                  !.state = nextState,
                  !.players = [id \in DOMAIN r.players |->
                                  [r.players[id] EXCEPT !.passedTurn = {}]]]

nextTurn(r, s) ==
    LET wraps == r.currentTurnIndex + 1 >= Len(r.turnOrder)
        nextIndex == IF wraps THEN 0 ELSE r.currentTurnIndex + 1
        nextRound == IF wraps THEN r.round + 1 ELSE r.round
        nextState == IF wraps /\ nextRound > r.maxRounds THEN "voting" ELSE "playing"
    IN  [s EXCEPT !.currentTurnIndex = nextIndex,
                  !.round = nextRound,
                  !.state = nextState,
                  !.players = [id \in DOMAIN r.players |->
                                  [r.players[id] EXCEPT !.passedTurn = {}]]]

castVote(s, uid, targetId) ==
    [s EXCEPT !.votes = (uid :> targetId) @@ s.votes]

resetGame(s) ==
    [s EXCEPT !.state = "lobby",
              !.round = 1,
              !.votes = EmptyMap,
              !.imposterIds = {},
              !.word = "",
              !.turnOrder = <<>>,
              !.currentTurnIndex = 0]

----------------------------------------------------------------------------
(* Document-store variant: calculateResults *)

\* voteCounts: for each voted-for id, the number of votes it received
VoteCounts(votes) ==
    [t \in Range(votes) |-> Cardinality({v \in DOMAIN votes : votes[v] = t})]

\* the loop over Object.entries(voteCounts), in the iteration order `order`;
\* acc = <<maxVotes, votedOutId>>
\* the loop without its tie branch: the first id that reaches the maximum stays
RECURSIVE TallyLoopFirstMax(_, _, _, _)
TallyLoopFirstMax(voteCounts, order, i, acc) ==
    IF i > Len(order) THEN acc
    ELSE LET vId == order[i]
             count == voteCounts[vId]
         IN  TallyLoopFirstMax(voteCounts, order, i + 1,
                IF count > acc[1] THEN <<count, vId>> ELSE acc)

\* the loop with >= for >: the last id that reaches the maximum wins
RECURSIVE TallyLoopLastMax(_, _, _, _)
TallyLoopLastMax(voteCounts, order, i, acc) ==
    IF i > Len(order) THEN acc
    ELSE LET vId == order[i]
             count == voteCounts[vId]
         IN  TallyLoopLastMax(voteCounts, order, i + 1,
                IF count >= acc[1] THEN <<count, vId>> ELSE acc)

RECURSIVE TallyLoop(_, _, _, _)
TallyLoop(voteCounts, order, i, acc) ==
    IF i > Len(order) THEN acc
    ELSE LET vId == order[i]
             count == voteCounts[vId]
         IN  TallyLoop(voteCounts, order, i + 1,
                IF count > acc[1] THEN <<count, vId>>
                ELSE IF count = acc[1] THEN <<acc[1], Null>>
                ELSE acc)

VotedOutId(votes, order) == TallyLoop(VoteCounts(votes), order, 1, <<0, Null>>)[2]

\* the caught flag without the membership test: whoever is voted out counts
IsAnyoneVotedOut(rData, votedOutId) == votedOutId # Null

IsImposterCaught(rData, votedOutId) ==
    votedOutId # Null /\ votedOutId \in rData.imposterIds

\* the scoring with the two vote branches swapped
ScoreGainSwapped(rData, votedOutId, id) ==
    LET voted == id \in DOMAIN rData.votes
        isCorrectVote == voted /\ rData.votes[id] \in rData.imposterIds
        bonus == IF /\ votedOutId # Null
                    /\ voted
                    /\ rData.votes[id] = votedOutId
                    /\ VoteCounts(rData.votes)[votedOutId] >=
                          (Cardinality(DOMAIN rData.players) \div 2) + 1
                 THEN 1 ELSE 0
    IN  IF id \notin rData.imposterIds
        THEN (IF isCorrectVote THEN -1 ELSE IF voted THEN 2 ELSE 0) + bonus
        ELSE IF ~IsImposterCaught(rData, votedOutId) THEN 3 ELSE 0

\* refined scoring (latest App)
ScoreGain(rData, votedOutId, id) ==
    LET voted == id \in DOMAIN rData.votes
        isCorrectVote == voted /\ rData.votes[id] \in rData.imposterIds
        isImposter == id \in rData.imposterIds
        majorityCount == (Cardinality(DOMAIN rData.players) \div 2) + 1
        bonus == IF /\ votedOutId # Null
                    /\ voted
                    /\ rData.votes[id] = votedOutId
                    /\ VoteCounts(rData.votes)[votedOutId] >= majorityCount
                 THEN 1 ELSE 0
    IN  IF ~isImposter
        THEN (IF isCorrectVote THEN 2 ELSE IF voted THEN -1 ELSE 0) + bonus
        ELSE IF ~IsImposterCaught(rData, votedOutId) THEN 3 ELSE 0

\* flat scoring (earlier App)
FlatGain(rData, votedOutId, id) ==
    IF IsImposterCaught(rData, votedOutId)
    THEN (IF id \notin rData.imposterIds THEN 10 ELSE 0)
    ELSE (IF id \in rData.imposterIds THEN 20 ELSE 0)

WinMsg(rData, votedOutId) ==
    IF IsImposterCaught(rData, votedOutId)
    THEN <<"Crew Wins", Name(votedOutId)>>
    ELSE <<"Imposter Wins", {Name(id) : id \in rData.imposterIds \cap DOMAIN rData.players}>>

HistoryEntry(rData, votedOutId, t) ==
    [date |-> t,
     imposters |-> {Name(id) : id \in rData.imposterIds \cap DOMAIN rData.players},
     word |-> rData.word,
     result |-> WinMsg(rData, votedOutId)]

\* rData.players[votedOutId!].name and updatedPlayers[id].score throw when the id
\* is no key of players: the handler then ends without its write
ResultsThrow(rData, votedOutId) ==
    IsImposterCaught(rData, votedOutId) /\ votedOutId \notin DOMAIN rData.players

FlatThrow(rData, votedOutId) ==
    \/ ResultsThrow(rData, votedOutId)
    \/ /\ ~IsImposterCaught(rData, votedOutId)
       /\ ~(rData.imposterIds \subseteq DOMAIN rData.players)

\* calculateResults with = for += on the score: the gain replaces the score
calculateResultsGainOnly(rData, order, t) ==
    LET votedOutId == VotedOutId(rData.votes, order)
    IN  [kind |-> "result",
         votedOutId |-> votedOutId,
         players |-> [id \in DOMAIN rData.players |->
                        [rData.players[id] EXCEPT
                            !.lastScoreGain = ScoreGain(rData, votedOutId, id),
                            !.score = ScoreGain(rData, votedOutId, id)]],
         entry |-> HistoryEntry(rData, votedOutId, t),
         chat |-> SystemChat(WinMsg(rData, votedOutId), t)]

\* the write calculateResults issues, computed from the snapshot rData (kept with
\* it: the handler's votedOutId)
calculateResults(rData, order, t) ==
    LET votedOutId == VotedOutId(rData.votes, order)
    IN  [kind |-> "result",
         votedOutId |-> votedOutId,
         players |-> [id \in DOMAIN rData.players |->
                        [rData.players[id] EXCEPT
                            !.lastScoreGain = ScoreGain(rData, votedOutId, id),
                            !.score = @ + ScoreGain(rData, votedOutId, id)]],
         entry |-> HistoryEntry(rData, votedOutId, t),
         chat |-> SystemChat(WinMsg(rData, votedOutId), t)]

calculateResultsFlat(rData, order, t) ==
    LET votedOutId == VotedOutId(rData.votes, order)
    IN  [kind |-> "result",
         votedOutId |-> votedOutId,
         players |-> [id \in DOMAIN rData.players |->
                        [rData.players[id] EXCEPT
                            !.lastScoreGain = FlatGain(rData, votedOutId, id),
                            !.score = @ + FlatGain(rData, votedOutId, id)]],
         entry |-> HistoryEntry(rData, votedOutId, t),
         chat |-> SystemChat(WinMsg(rData, votedOutId), t)]

\* the result write without its historyLog field
applyResultNoLog(s, w) ==
    [s EXCEPT !.state = "result",
              !.players = w.players,
              !.chats = arrayUnion(s.chats, w.chat)]

\* updateDoc(rRef, {state: 'result', players, historyLog: arrayUnion, chats: arrayUnion})
applyResult(s, w) ==
    [s EXCEPT !.state = "result",
              !.players = w.players,
              !.historyLog = arrayUnion(s.historyLog, w.entry),
              !.chats = arrayUnion(s.chats, w.chat)]

\* the Room Listener's test before it calls calculateResults (host only)
TallyDue(uid, rData) ==
    /\ uid = rData.hostId
    /\ rData.state = "voting"
    /\ Cardinality(DOMAIN rData.votes) >= Cardinality(DOMAIN rData.players)

----------------------------------------------------------------------------
(* Document-store variant: the participants *)

\* what the store serves to uid once `p` is the host's unapplied result write:
\* the store client overlays a client's own pending writes on its snapshots
Snapshot(s, p, uid) ==
    IF s # NoRoom /\ p # NoWrite /\ uid = s.hostId THEN applyResult(s, p) ELSE s

\* the writes of one client reach the store in the order they were issued
InOrder(uid) == room # NoRoom /\ (uid = room.hostId => pend = NoWrite)

\* the result write the host's Room Listener issues on a snapshot of the store s
\* (NoWrite when the listener does not call calculateResults or the call throws)
Issued(s, order, t) ==
    IF /\ s.hostId \notin lag
       /\ local[s.hostId] # NoRoom
       /\ TallyDue(s.hostId, s)
       /\ ~ResultsThrow(s, VotedOutId(s.votes, order))
    THEN calculateResults(s, order, t)
    ELSE NoWrite

\* a write by uid has produced the store document s (w is the same write applied
\* to uid's own copy).  Every listener that is not lagging receives the snapshot;
\* uid itself sees its own write at once.
Publish(uid, s, w) ==
    /\ room' = s
    /\ \E order \in Perms(Range(s.votes)) :
         LET hostView == IF s.hostId = uid /\ uid \in lag /\ w # NoRoom THEN w ELSE s
             p == IF pend # NoWrite THEN pend ELSE Issued(hostView, order, now)
         IN  /\ pend' = p
             /\ local' = [u \in Users |->
                   IF u = uid /\ u \in lag
                   THEN View(Snapshot(w, p, u))
                   ELSE IF u \in lag \/ (local[u] = NoRoom /\ u # uid)
                   THEN local[u]
                   ELSE View(Snapshot(s, p, u))]

\* Date.now() advances with every write that read it
Tick(read) == now' = IF read \/ pend' # pend THEN now + 1 ELSE now

CreateRoom(uid) ==
    /\ room = NoRoom
    /\ room' = initialRoom(uid)
    /\ local' = [local EXCEPT ![uid] = View(room')]
    /\ UNCHANGED <<adv, pend, now, games, races, lag>>
    /\ UNCHANGED <<meshVars, advances, eroom>>

\* uid's listener falls behind: it misses the snapshots published from now on
Lag(uid) ==
    /\ room # NoRoom
    /\ uid \notin lag
    /\ races < MaxRaces
    /\ lag' = lag \cup {uid}
    /\ races' = races + 1
    /\ UNCHANGED <<room, local, adv, pend, now, games>>
    /\ UNCHANGED <<meshVars, advances, eroom>>

\* the store delivers its current snapshot to the lagging listener of uid
Deliver(uid) ==
    /\ uid \in lag
    /\ lag' = lag \ {uid}
    /\ \E order \in Perms(Range(room.votes)) :
         LET p == IF pend # NoWrite \/ uid # room.hostId \/ local[uid] = NoRoom
                  THEN pend
                  ELSE IF TallyDue(uid, room)
                          /\ ~ResultsThrow(room, VotedOutId(room.votes, order))
                       THEN calculateResults(room, order, now)
                       ELSE NoWrite
         IN  /\ pend' = p
             /\ local' = [local EXCEPT ![uid] =
                    IF local[uid] = NoRoom THEN NoRoom
                    ELSE View(Snapshot(room, p, uid))]
    /\ Tick(FALSE)
    /\ UNCHANGED <<room, adv, games, races>>
    /\ UNCHANGED <<meshVars, advances, eroom>>

\* the store applies the host's result write
ApplyResult ==
    /\ pend # NoWrite
    /\ room' = applyResult(room, pend)
    /\ pend' = NoWrite
    /\ local' = [u \in Users |->
          IF u \in lag \/ local[u] = NoRoom THEN local[u] ELSE View(room')]
    /\ UNCHANGED <<adv, now, games, races, lag>>
    /\ UNCHANGED <<meshVars, advances, eroom>>

\* a signed-in participant opens the room link: the listener subscribes
OpenRoom(uid) ==
    /\ local[uid] = NoRoom
    /\ room # NoRoom
    /\ uid \notin lag
    /\ local' = [local EXCEPT ![uid] = View(room)]
    /\ UNCHANGED <<room, adv, pend, now, games, races, lag>>
    /\ UNCHANGED <<meshVars, advances, eroom>>

\* JOIN button: shown while uid has no local copy
JoinRoom(uid) ==
    /\ local[uid] = NoRoom
    /\ room # NoRoom
    /\ Publish(uid, joinRoom(room, uid), NoRoom)
    /\ Tick(FALSE)
    /\ UNCHANGED <<adv, games, races, lag>>
    /\ UNCHANGED <<meshVars, advances, eroom>>

\* leaveRoom: the room is dropped and the listener unsubscribes
LeaveRoom(uid) ==
    /\ local[uid] # NoRoom
    /\ races < MaxRaces
    /\ local' = [local EXCEPT ![uid] = NoRoom]
    /\ lag' = lag \ {uid}
    /\ races' = races + 1
    /\ UNCHANGED <<room, adv, pend, now, games>>
    /\ UNCHANGED <<meshVars, advances, eroom>>

\* imposter count select: shown in the lobby, enabled for the host
SetImposterCount(uid, n) ==
    /\ local[uid] # NoRoom
    /\ local[uid].state = "lobby"
    /\ uid = local[uid].hostId
    /\ n # local[uid].imposterCount
    /\ InOrder(uid)
    /\ Publish(uid, setImposterCount(room, n), setImposterCount(local[uid], n))
    /\ Tick(FALSE)
    /\ UNCHANGED <<adv, games, races, lag>>
    /\ UNCHANGED <<meshVars, advances, eroom>>

\* SWIPE TO START: shown in the lobby to the host
StartGame(uid) ==
    /\ local[uid] # NoRoom
    /\ local[uid].state = "lobby"
    /\ uid = local[uid].hostId
    /\ games < MaxGames
    /\ InOrder(uid)
    /\ \E imps \in ImposterChoices(local[uid]),
          order \in Perms(DOMAIN local[uid].players),
          w \in Words :
            Publish(uid, startGame(local[uid], room, imps, order, w, now),
                         startGame(local[uid], local[uid], imps, order, w, now))
    /\ Tick(TRUE)
    /\ games' = games + 1
    /\ UNCHANGED <<adv, races, lag>>
    /\ UNCHANGED <<meshVars, advances, eroom>>

\* chat form: a recipient other than the sender is selected among the players
SendChat(uid, recipient) ==
    /\ local[uid] # NoRoom
    /\ recipient \in DOMAIN local[uid].players \ {uid}
    /\ Len(room.chats) < MaxChats
    /\ InOrder(uid)
    /\ Publish(uid, sendChat(room, uid, recipient, now), local[uid])
    /\ Tick(TRUE)
    /\ UNCHANGED <<adv, games, races, lag>>
    /\ UNCHANGED <<meshVars, advances, eroom>>

\* role card: shown during play to a player whose role is not revealed.  (A
\* nested field path that names no key of the stored players map would create
\* a partial record; RevealRole and PassTurn act on keys the store holds.)
RevealRole(uid) ==
    /\ local[uid] # NoRoom
    /\ local[uid].state = "playing"
    /\ uid \in DOMAIN local[uid].players
    /\ ~local[uid].players[uid].isRoleRevealed
    /\ InOrder(uid)
    /\ uid \in DOMAIN room.players
    /\ Publish(uid, revealRole(room, uid), revealRole(local[uid], uid))
    /\ Tick(FALSE)
    /\ UNCHANGED <<adv, games, races, lag>>
    /\ UNCHANGED <<meshVars, advances, eroom>>

\* the turn-holder the local copy shows
TurnHolder(r) == r.turnOrder[r.currentTurnIndex + 1]

\* PASS / DONE button: shown during play on the current turn-holder to a
\* participant who is not in its passedTurn
PassTurn(uid) ==
    /\ local[uid] # NoRoom
    /\ local[uid].state = "playing"
    /\ local[uid].currentTurnIndex + 1 \in DOMAIN local[uid].turnOrder
    /\ LET r == local[uid]
           targetId == TurnHolder(r)
       IN  /\ targetId \in DOMAIN r.players
           /\ uid \notin r.players[targetId].passedTurn
           /\ targetId \in DOMAIN room.players
           /\ adv[uid] = NoRoom
           /\ InOrder(uid)
           /\ Publish(uid, passTurn(r, room, targetId, uid), passTurn(r, r, targetId, uid))
           /\ adv' = [adv EXCEPT ![uid] =
                        IF PassMajority(r, targetId, uid) THEN r ELSE NoRoom]
    /\ Tick(FALSE)
    /\ UNCHANGED <<games, races, lag>>
    /\ UNCHANGED <<meshVars, advances, eroom>>

\* nextTurn(), called by passTurn once its own write is acknowledged, with the
\* `room` closure passTurn ran with
NextTurn(uid) ==
    /\ adv[uid] # NoRoom
    /\ InOrder(uid)
    /\ Publish(uid, nextTurn(adv[uid], room),
                    IF local[uid] = NoRoom THEN NoRoom
                    ELSE nextTurn(adv[uid], local[uid]))
    /\ Tick(FALSE)
    /\ adv' = [adv EXCEPT ![uid] = NoRoom]
    /\ UNCHANGED <<games, races, lag>>
    /\ UNCHANGED <<meshVars, advances, eroom>>

\* vote button: shown on every player while the local copy is in voting
CastVote(uid, targetId) ==
    /\ local[uid] # NoRoom
    /\ local[uid].state = "voting"
    /\ targetId \in DOMAIN local[uid].players
    /\ InOrder(uid)
    /\ Publish(uid, castVote(room, uid, targetId), castVote(local[uid], uid, targetId))
    /\ Tick(FALSE)
    /\ UNCHANGED <<adv, games, races, lag>>
    /\ UNCHANGED <<meshVars, advances, eroom>>

\* PLAY AGAIN: shown on the result screen to the host
ResetGame(uid) ==
    /\ local[uid] # NoRoom
    /\ local[uid].state = "result"
    /\ uid = local[uid].hostId
    /\ InOrder(uid)
    /\ Publish(uid, resetGame(room), resetGame(local[uid]))
    /\ Tick(FALSE)
    /\ UNCHANGED <<adv, games, races, lag>>
    /\ UNCHANGED <<meshVars, advances, eroom>>


----------------------------------------------------------------------------
(* Mesh variant: data and the host's handlers (GameManager) *)

Peers == {"p1", "p2", "p3"}
MaxInFlight == 1

MeshMaxRounds == 3

getInitialState ==
    [state |-> "LOBBY",
     players |-> <<>>,
     messages |-> <<>>,
     imposterId |-> Null,
     secretWord |-> "",
     currentTurnId |-> Null,
     round |-> 1,
     maxRounds |-> MeshMaxRounds]

MeshPlayer(id, isHost) ==
    [id |-> id, isHost |-> isHost, score |-> 0, passedCount |-> 0, votedFor |-> Null]

Ids(s) == {s.players[i].id : i \in DOMAIN s.players}

\* players.findIndex(p => p.id === id), counted from 1; 0 when there is none
FindIndex(s, id) ==
    IF id \in Ids(s) THEN CHOOSE i \in DOMAIN s.players : s.players[i].id = id ELSE 0

\* state.players.sort((a, b) => b.score - a.score) of the results screen: a stable
\* sort, in place, of the array the GameManager holds
SortByScore(players) ==
    LET n == Len(players)
        q == CHOOSE f \in Perms(1..n) :
                \A i, j \in 1..n : i < j =>
                    \/ players[f[i]].score > players[f[j]].score
                    \/ /\ players[f[i]].score = players[f[j]].score
                       /\ f[i] < f[j]
    IN  [i \in 1..n |-> players[q[i]]]

\* notifyUpdate: the screen of the new state is rendered
Rendered(s) ==
    IF s.state = "RESULTS" THEN [s EXCEPT !.players = SortByScore(s.players)] ELSE s

\* JOIN without the membership test
handleJOINAlways(s, senderId) ==
    [s EXCEPT !.players = Append(s.players, MeshPlayer(senderId, FALSE))]

handleJOIN(s, senderId) ==
    IF senderId \in Ids(s) THEN s
    ELSE [s EXCEPT !.players = Append(s.players, MeshPlayer(senderId, FALSE))]

handleCHAT(s, senderId) ==
    [s EXCEPT !.messages = Append(s.messages, [sender |-> Name(senderId), text |-> "chat"])]

GM_startGame(s, word, imposterIndex) ==
    [s EXCEPT !.secretWord = word,
              !.state = "ROLES",
              !.imposterId = s.players[imposterIndex].id,
              !.currentTurnId = s.players[1].id,
              !.players = [i \in DOMAIN s.players |->
                             [s.players[i] EXCEPT !.passedCount = 0, !.votedFor = Null]]]

GM_nextTurn(s) ==
    LET idx == FindIndex(s, s.currentTurnId)
        cleared == [i \in DOMAIN s.players |-> [s.players[i] EXCEPT !.passedCount = 0]]
    IN  IF idx >= Len(s.players)
        THEN IF s.round >= s.maxRounds
             THEN [s EXCEPT !.players = cleared, !.state = "VOTING"]
             ELSE [s EXCEPT !.players = cleared,
                            !.round = s.round + 1,
                            !.currentTurnId = s.players[1].id]
        ELSE [s EXCEPT !.players = cleared, !.currentTurnId = s.players[idx + 1].id]

handlePASS_TURN(s) ==
    LET i == FindIndex(s, s.currentTurnId)
        passed == [s EXCEPT !.players[i].passedCount = @ + 1]
    IN  IF i = 0 THEN s
        ELSE IF passed.players[i].passedCount >= 2 THEN GM_nextTurn(passed)
        ELSE passed

\* the senders of the PASS_TURN actions handled for the turn-holder, once the host
\* has handled one more, from senderId, in the state s
Acknowledged(s, acks, senderId) ==
    LET i == FindIndex(s, s.currentTurnId)
    IN  IF i = 0 THEN acks
        ELSE IF s.players[i].passedCount + 1 >= 2 THEN {}
        ELSE acks \cup {senderId}

GM_calculateScores(s) ==
    [s EXCEPT !.players = [i \in DOMAIN s.players |->
        LET p == s.players[i]
        IN  [p EXCEPT !.score =
                @ + (IF p.id # s.imposterId /\ p.votedFor = s.imposterId THEN 10 ELSE 0)
                  + (IF p.id = s.imposterId /\ p.votedFor # Null THEN 5 ELSE 0)]]]

handleVOTE(s, senderId, targetId) ==
    LET i == FindIndex(s, senderId)
        voted == IF i = 0 THEN s ELSE [s EXCEPT !.players[i].votedFor = targetId]
    IN  IF \A j \in DOMAIN voted.players : voted.players[j].votedFor # Null
        THEN [GM_calculateScores(voted) EXCEPT !.state = "RESULTS"]
        ELSE voted

\* handleMessage on the host, for an ACTION message
handleMessage(s, msg) ==
    IF msg.action = "JOIN" THEN handleJOIN(s, msg.senderId)
    ELSE IF msg.action = "CHAT" THEN handleCHAT(s, msg.senderId)
    ELSE IF msg.action = "PASS_TURN" THEN handlePASS_TURN(s)
    ELSE IF msg.action = "VOTE" THEN handleVOTE(s, msg.senderId, msg.targetId)
    ELSE s

Action(action, senderId, targetId) ==
    [action |-> action, senderId |-> senderId, targetId |-> targetId]

----------------------------------------------------------------------------
(* Mesh variant: the peers *)

\* broadcastState that only calls notifyUpdate: no STATE_SYNC is sent
BroadcastUnsent(s) ==
    /\ mstate' = Rendered(s)
    /\ mview' = mview

\* broadcastState on the host: every open connection whose syncs are not held up
\* receives the state; the host and the guests render it
Broadcast(s) ==
    /\ mstate' = Rendered(s)
    /\ mview' = [g \in Peers |->
          IF mconn[g] = "open" /\ g \notin mlag THEN Rendered(s) ELSE mview[g]]

RECURSIVE SumLen(_, _)
SumLen(box, S) ==
    IF S = {} THEN 0
    ELSE LET g == CHOOSE x \in S : TRUE IN Len(box[g]) + SumLen(box, S \ {g})

InFlight == SumLen(mbox, Peers)

\* sendAction without the isHost test: the guest also runs handleMessage on its
\* own state
SendAndHandle(g, msg) ==
    /\ mconn[g] = "open"
    /\ g \notin mlag
    /\ InFlight < MaxInFlight
    /\ mbox' = [mbox EXCEPT ![g] = Append(@, msg)]
    /\ mview' = [mview EXCEPT ![g] = handleMessage(@, msg)]
    /\ UNCHANGED <<mhost, mstate, mconn, mlag, mtimer, mgames, mraces, mdup, macks>>

\* sendAction on a guest: the ACTION goes to the host over the open connection.
\* An ACTION sent from a state that is behind the host's is the ACTION sent
\* earlier and still in flight, so a guest acts while its syncs are not held up.
Send(g, msg) ==
    /\ mconn[g] = "open"
    /\ g \notin mlag
    /\ InFlight < MaxInFlight
    /\ mbox' = [mbox EXCEPT ![g] = Append(@, msg)]
    /\ UNCHANGED <<mhost, mstate, mview, mconn, mlag, mtimer, mgames, mraces, mdup, macks>>

\* sendAction on the host: handleMessage runs at once
HostDo(s) ==
    /\ Broadcast(s)
    /\ UNCHANGED <<mhost, mconn, mbox, mlag, mtimer, mgames, mraces, mdup, macks>>

\* initialize(name) and the peer's 'open' event: the creator becomes the host
Initialize(p) ==
    /\ mhost = Null
    /\ mhost' = p
    /\ mstate' = [getInitialState EXCEPT !.players = <<MeshPlayer(p, TRUE)>>]
    /\ UNCHANGED <<mview, mconn, mbox, mlag, mtimer, mgames, mraces, mdup, macks>>
    /\ UNCHANGED <<docVars, advances, eroom>>

\* initialize(name, roomId) on a guest: the connection opens and JOIN is sent
Connect(g) ==
    /\ mhost # Null /\ g # mhost
    /\ mconn[g] = "idle"
    /\ InFlight < MaxInFlight
    /\ mconn' = [mconn EXCEPT ![g] = "open"]
    /\ mbox' = [mbox EXCEPT ![g] = <<Action("JOIN", g, Null)>>]
    /\ UNCHANGED <<mhost, mstate, mview, mlag, mtimer, mgames, mraces, mdup, macks>>
    /\ UNCHANGED <<docVars, advances, eroom>>

\* Join pressed again on the entry screen, which stays until the first sync
JoinAgain(g) ==
    /\ mview[g] = getInitialState
    /\ mconn[g] = "open"
    /\ InFlight < MaxInFlight
    /\ mbox' = [mbox EXCEPT ![g] = Append(@, Action("JOIN", g, Null))]
    /\ UNCHANGED <<mhost, mstate, mview, mconn, mlag, mtimer, mgames, mraces, mdup, macks>>
    /\ UNCHANGED <<docVars, advances, eroom>>

\* conn.on('data') on the host: handleMessage, which broadcasts unless the JOIN
\* came from a player or PASS_TURN found no turn-holder
Receive(g) ==
    /\ mbox[g] # <<>>
    /\ mbox' = [mbox EXCEPT ![g] = Tail(@)]
    /\ LET msg == Head(mbox[g])
           s == handleMessage(mstate, msg)
       IN  /\ IF msg.action \in {"JOIN", "PASS_TURN"} /\ s = mstate
              THEN UNCHANGED <<mstate, mview>>
              ELSE Broadcast(s)
           /\ mdup' = IF msg.action = "JOIN" /\ msg.senderId \in Ids(mstate)
                      THEN mdup \cup {msg.senderId} ELSE mdup
           /\ macks' = IF msg.action = "PASS_TURN"
                       THEN Acknowledged(mstate, macks, msg.senderId) ELSE macks
    /\ UNCHANGED <<mhost, mconn, mlag, mtimer, mgames, mraces>>
    /\ UNCHANGED <<docVars, advances, eroom>>

\* conn.on('close') on the host
Close(g) ==
    /\ mconn[g] = "open"
    /\ mraces < MaxRaces
    /\ mraces' = mraces + 1
    /\ mconn' = [mconn EXCEPT ![g] = "closed"]
    /\ mbox' = [mbox EXCEPT ![g] = <<>>]
    /\ mlag' = mlag \ {g}
    /\ mstate' = Rendered([mstate EXCEPT !.players =
                    SelectSeq(mstate.players, LAMBDA q : q.id # g)])
    /\ mview' = [h \in Peers |->
          IF h # g /\ mconn[h] = "open" /\ h \notin mlag THEN mstate' ELSE mview[h]]
    /\ UNCHANGED <<mhost, mtimer, mgames, mdup, macks>>
    /\ UNCHANGED <<docVars, advances, eroom>>

\* the STATE_SYNC messages to g are held up from now on
MeshLag(g) ==
    /\ mconn[g] = "open"
    /\ g \notin mlag
    /\ mraces < MaxRaces
    /\ mraces' = mraces + 1
    /\ mlag' = mlag \cup {g}
    /\ UNCHANGED <<mhost, mstate, mview, mconn, mbox, mtimer, mgames, mdup, macks>>
    /\ UNCHANGED <<docVars, advances, eroom>>

\* the held-up STATE_SYNC messages reach g: its state is the last one sent
MeshDeliver(g) ==
    /\ g \in mlag
    /\ mlag' = mlag \ {g}
    /\ mview' = [mview EXCEPT ![g] = mstate]
    /\ UNCHANGED <<mhost, mstate, mconn, mbox, mtimer, mgames, mraces, mdup, macks>>
    /\ UNCHANGED <<docVars, advances, eroom>>

\* chat form of the lobby screen, on a guest
GuestChat(g) ==
    /\ mview[g] # getInitialState
    /\ mview[g].state = "LOBBY"
    /\ Len(mstate.messages) + InFlight < MaxChats
    /\ Send(g, Action("CHAT", g, Null))
    /\ UNCHANGED <<docVars, advances, eroom>>

\* Pass Turn button of the game screen: shown on the turn-holder to the others
CanPass(s, id) ==
    s.state = "PLAYING" /\ s.currentTurnId \in Ids(s) /\ s.currentTurnId # id

GuestPass(g) ==
    /\ CanPass(mview[g], g)
    /\ Send(g, Action("PASS_TURN", g, Null))
    /\ UNCHANGED <<docVars, advances, eroom>>

\* Confirm Vote of the voting screen: shown until the own vote is in the state
CanVote(s, id, targetId) ==
    /\ s.state = "VOTING"
    /\ id \in Ids(s) => s.players[FindIndex(s, id)].votedFor = Null
    /\ targetId \in Ids(s) \ {id}

GuestVote(g, targetId) ==
    /\ CanVote(mview[g], g, targetId)
    /\ Send(g, Action("VOTE", g, targetId))
    /\ UNCHANGED <<docVars, advances, eroom>>

HostChat ==
    /\ mhost # Null
    /\ mstate.state = "LOBBY"
    /\ Len(mstate.messages) + InFlight < MaxChats
    /\ HostDo(handleMessage(mstate, Action("CHAT", mhost, Null)))
    /\ UNCHANGED <<docVars, advances, eroom>>

\* Start Game of the lobby screen: shown to the host, refused under 3 players
HostStart ==
    /\ mhost # Null
    /\ mstate.state = "LOBBY"
    /\ Len(mstate.players) >= 3
    /\ mgames < MaxGames
    /\ mgames' = mgames + 1
    /\ \E word \in Words, imposterIndex \in DOMAIN mstate.players :
         Broadcast(GM_startGame(mstate, word, imposterIndex))
    /\ macks' = {}
    /\ UNCHANGED <<mhost, mconn, mbox, mlag, mtimer, mraces, mdup>>
    /\ UNCHANGED <<docVars, advances, eroom>>

\* Swipe to Reveal on the host's role screen arms the 3 s timer
HostReveal ==
    /\ mhost # Null
    /\ mstate.state = "ROLES"
    /\ ~mtimer
    /\ mtimer' = TRUE
    /\ UNCHANGED <<mhost, mstate, mview, mconn, mbox, mlag, mgames, mraces, mdup, macks>>
    /\ UNCHANGED <<docVars, advances, eroom>>

\* the timer's callback on the host: state = 'PLAYING', broadcastState()
RevealTimer ==
    /\ mtimer
    /\ mtimer' = FALSE
    /\ Broadcast([mstate EXCEPT !.state = "PLAYING"])
    /\ UNCHANGED <<mhost, mconn, mbox, mlag, mgames, mraces, mdup, macks>>
    /\ UNCHANGED <<docVars, advances, eroom>>

HostPass ==
    /\ mhost # Null
    /\ CanPass(mstate, mhost)
    /\ Broadcast(handleMessage(mstate, Action("PASS_TURN", mhost, Null)))
    /\ macks' = Acknowledged(mstate, macks, mhost)
    /\ UNCHANGED <<mhost, mconn, mbox, mlag, mtimer, mgames, mraces, mdup>>
    /\ UNCHANGED <<docVars, advances, eroom>>

HostVote(targetId) ==
    /\ mhost # Null
    /\ CanVote(mstate, mhost, targetId)
    /\ HostDo(handleMessage(mstate, Action("VOTE", mhost, targetId)))
    /\ UNCHANGED <<docVars, advances, eroom>>

\* Play Again (Same Room) of the results screen, on the host
PlayAgain ==
    /\ mhost # Null
    /\ mstate.state = "RESULTS"
    /\ HostDo([mstate EXCEPT !.state = "LOBBY"])
    /\ UNCHANGED <<docVars, advances, eroom>>

----------------------------------------------------------------------------
(* Scenarios: the tally on a four-player room, and the turn rollover *)

NoAdvances == [doc |-> 0, mesh |-> 0]

Seats == <<"u1", "u2", "u3", "u4">>
Voters == Range(Seats)

\* a room of the players `ids` that startGame has started with the imposters imps
StartedRoom(ids, imps) ==
    LET lobby == [initialRoom(Seats[1]) EXCEPT
                    !.players = [id \in Range(ids) |-> NewPlayer],
                    !.imposterCount = Cardinality(imps)]
    IN  startGame(lobby, lobby, imps, ids, CHOOSE w \in Words : TRUE, 0)

\* the same room once the last turn of the last round is over and votes are cast
VotingRoom(votes, imps) ==
    [StartedRoom(Seats, imps) EXCEPT
        !.state = "voting", !.round = MaxRounds + 1, !.votes = votes]

TallyRoom ==
    /\ \E votes \in [Voters -> Voters],
          imps \in {S \in SUBSET Voters : Cardinality(S) \in {1, 2}} :
            room = VotingRoom(votes, imps)
    /\ local = [u \in Users |-> NoRoom]
    /\ adv = [u \in Users |-> NoRoom]
    /\ pend = NoWrite
    /\ now = 1
    /\ games = 1
    /\ races = 0
    /\ lag = {}

\* the host's Room Listener receives the snapshot and calls calculateResults
Tally ==
    /\ pend = NoWrite
    /\ TallyDue(room.hostId, room)
    /\ \E order \in Perms(Range(room.votes)) :
         /\ ~ResultsThrow(room, VotedOutId(room.votes, order))
         /\ pend' = calculateResults(room, order, now)
    /\ now' = now + 1
    /\ UNCHANGED <<room, local, adv, games, races, lag>>
    /\ UNCHANGED <<meshVars, advances, eroom>>

\* the same with the calculateResults of the earlier App component
TallyFlat ==
    /\ pend = NoWrite
    /\ TallyDue(room.hostId, room)
    /\ \E order \in Perms(Range(room.votes)) :
         /\ ~FlatThrow(room, VotedOutId(room.votes, order))
         /\ pend' = calculateResultsFlat(room, order, now)
    /\ now' = now + 1
    /\ UNCHANGED <<room, local, adv, games, races, lag>>
    /\ UNCHANGED <<meshVars, advances, eroom>>

\* the mesh host's state with the players `ids`, in play at round 1, first turn
MeshStarted(ids) ==
    LET lobby == [getInitialState EXCEPT
                    !.players = [i \in DOMAIN ids |-> MeshPlayer(ids[i], i = 1)]]
    IN  [GM_startGame(lobby, CHOOSE w \in Words : TRUE, 1) EXCEPT !.state = "PLAYING"]

TurnsInit ==
    /\ \E n \in DOMAIN Seats :
         /\ room = StartedRoom(SubSeq(Seats, 1, n), {Seats[1]})
         /\ mstate = MeshStarted(SubSeq(Seats, 1, n))
    /\ local = [u \in Users |-> NoRoom]
    /\ adv = [u \in Users |-> NoRoom]
    /\ pend = NoWrite
    /\ now = 1
    /\ games = 1
    /\ races = 0
    /\ lag = {}
    /\ mhost = Seats[1]
    /\ mview = [g \in Peers |-> getInitialState]
    /\ mconn = [g \in Peers |-> "idle"]
    /\ mbox = [g \in Peers |-> <<>>]
    /\ mlag = {}
    /\ mtimer = FALSE
    /\ mgames = 1
    /\ mraces = 0
    /\ mdup = {}
    /\ macks = {}
    /\ advances = NoAdvances
    /\ eroom = NoRoom

\* document store: nextTurn() with an up-to-date `room`
DocAdvance ==
    /\ room.state = "playing"
    /\ room' = nextTurn(room, room)
    /\ advances' = [advances EXCEPT !.doc = @ + 1]
    /\ UNCHANGED <<local, adv, pend, now, games, races, lag, meshVars, eroom>>

\* mesh: GameManager.nextTurn() on the host
MeshAdvance ==
    /\ mstate.state = "PLAYING"
    /\ mstate' = GM_nextTurn(mstate)
    /\ advances' = [advances EXCEPT !.mesh = @ + 1]
    /\ UNCHANGED <<mhost, mview, mconn, mbox, mlag, mtimer, mgames, mraces, mdup, macks>>
    /\ UNCHANGED <<docVars, eroom>>

----------------------------------------------------------------------------
(* Document-store variant, earlier App component (src/src/sounds.ts): one    *)
(* imposter, a pass threshold of two, DONE calls nextTurn() directly          *)

EarlierMaxRounds == 3

earlier_NewPlayer == [score |-> 0, role |-> "", isReady |-> FALSE, passedTurn |-> {}]

earlier_initialRoom(uid) ==
    [hostId |-> uid,
     state |-> "lobby",
     word |-> "",
     imposterId |-> "",
     round |-> 1,
     maxRounds |-> EarlierMaxRounds,
     players |-> (uid :> earlier_NewPlayer),
     turnOrder |-> <<>>,
     currentTurnIndex |-> 0,
     votes |-> EmptyMap,
     chats |-> <<>>,
     historyLog |-> <<>>]

earlier_startGame(r, s, imposterId, order, secretWord, t) ==
    [s EXCEPT !.state = "playing",
              !.word = secretWord,
              !.imposterId = imposterId,
              !.players = [id \in DOMAIN r.players |->
                              [r.players[id] EXCEPT
                                  !.role = IF id = imposterId THEN "Imposter" ELSE "Crew",
                                  !.passedTurn = {}]],
              !.turnOrder = order,
              !.currentTurnIndex = 0,
              !.votes = EmptyMap,
              !.chats = Append(r.chats,
                            [sender |-> "System", msg |-> <<"Game Started">>, time |-> t])]

earlier_passTurn(r, s, targetId, uid) ==
    [s EXCEPT !.players[targetId].passedTurn = newPassedBy(r, targetId, uid)]

\* the test after the write in the earlier passTurn that calls nextTurn()
earlier_PassEnough(r, targetId, uid) ==
    Cardinality(newPassedBy(r, targetId, uid)) >= 2

earlier_nextTurn(r, s) ==
    LET wraps == r.currentTurnIndex + 1 >= Len(r.turnOrder)
        nextIndex == IF wraps THEN 0 ELSE r.currentTurnIndex + 1
        nextRound == IF wraps THEN r.round + 1 ELSE r.round
        nextState == IF wraps /\ nextRound > r.maxRounds THEN "voting" ELSE "playing"
    IN  [s EXCEPT !.currentTurnIndex = nextIndex,
                  !.round = nextRound,
                  !.state = nextState]

----------------------------------------------------------------------------
(* Scenario: the passes of one game, every handler running on an up-to-date  *)
(* room, in one of the three variants                                         *)

\* the earlier App's room of the players `ids`, started with ids[1] as imposter
EarlierStarted(ids) ==
    LET lobby == [earlier_initialRoom(ids[1]) EXCEPT
                    !.players = [id \in Range(ids) |-> earlier_NewPlayer]]
    IN  earlier_startGame(lobby, lobby, ids[1], ids, CHOOSE w \in Words : TRUE, 0)

RoundsInit ==
    /\ \E n \in DOMAIN Seats :
         LET ids == SubSeq(Seats, 1, n)
         IN  \/ /\ room = StartedRoom(ids, {ids[1]})
                /\ eroom = NoRoom
                /\ mhost = Null /\ mstate = getInitialState
             \/ /\ room = NoRoom
                /\ eroom = EarlierStarted(ids)
                /\ mhost = Null /\ mstate = getInitialState
             \/ /\ room = NoRoom
                /\ eroom = NoRoom
                /\ mhost = ids[1] /\ mstate = MeshStarted(ids)
    /\ local = [u \in Users |-> NoRoom]
    /\ adv = [u \in Users |-> NoRoom]
    /\ pend = NoWrite
    /\ now = 1
    /\ games = IF room = NoRoom THEN 0 ELSE 1
    /\ races = 0
    /\ lag = {}
    /\ mview = [g \in Peers |-> getInitialState]
    /\ mconn = [g \in Peers |-> "idle"]
    /\ mbox = [g \in Peers |-> <<>>]
    /\ mlag = {}
    /\ mtimer = FALSE
    /\ mgames = IF mhost = Null THEN 0 ELSE 1
    /\ mraces = 0
    /\ mdup = {}
    /\ macks = {}
    /\ advances = NoAdvances

\* PASS / DONE of the latest App: passTurn, and nextTurn() on a majority
DocPass(uid) ==
    /\ room # NoRoom
    /\ room.state = "playing"
    /\ uid \in DOMAIN room.players
    /\ LET targetId == TurnHolder(room)
       IN  /\ uid \notin room.players[targetId].passedTurn
           /\ room' = IF PassMajority(room, targetId, uid)
                      THEN nextTurn(room, passTurn(room, room, targetId, uid))
                      ELSE passTurn(room, room, targetId, uid)
    /\ UNCHANGED <<local, adv, pend, now, games, races, lag, meshVars, advances, eroom>>

\* PASS TURN of the earlier App: shown on the turn-holder to the others
EarlierPass(uid) ==
    /\ eroom # NoRoom
    /\ eroom.state = "playing"
    /\ uid \in DOMAIN eroom.players
    /\ LET targetId == TurnHolder(eroom)
       IN  /\ uid # targetId
           /\ uid \notin eroom.players[targetId].passedTurn
           /\ eroom' = IF earlier_PassEnough(eroom, targetId, uid)
                       THEN earlier_nextTurn(eroom,
                                earlier_passTurn(eroom, eroom, targetId, uid))
                       ELSE earlier_passTurn(eroom, eroom, targetId, uid)
    /\ UNCHANGED <<docVars, meshVars, advances>>

\* DONE of the earlier App: shown to the turn-holder, calls nextTurn()
EarlierDone(uid) ==
    /\ eroom # NoRoom
    /\ eroom.state = "playing"
    /\ uid = TurnHolder(eroom)
    /\ eroom' = earlier_nextTurn(eroom, eroom)
    /\ UNCHANGED <<docVars, meshVars, advances>>

\* Pass Turn of the mesh game screen, by the player id: the host handles the
\* PASS_TURN action
MeshPass(id) ==
    /\ mhost # Null
    /\ id \in Ids(mstate)
    /\ CanPass(mstate, id)
    /\ mstate' = handleMessage(mstate, Action("PASS_TURN", id, Null))
    /\ macks' = Acknowledged(mstate, macks, id)
    /\ UNCHANGED <<mhost, mview, mconn, mbox, mlag, mtimer, mgames, mraces, mdup>>
    /\ UNCHANGED <<docVars, advances, eroom>>

----------------------------------------------------------------------------
(* Earlier App component: the lobby, each participant acting on its local    *)
(* copy (kept whole in `local`: startGame reads room.chats from it)           *)

earlier_joinRoom(s, uid) ==
    [s EXCEPT !.players = (uid :> earlier_NewPlayer) @@ s.players]

earlier_sendChat(s, uid, recipient, t) ==
    [s EXCEPT !.chats = arrayUnion(s.chats,
        [senderId |-> uid, recipientId |-> recipient, sender |-> Name(uid),
         msg |-> <<"chat">>, time |-> t])]

\* the chat messages of the participants in the stored log
UserChats(s) == {i \in DOMAIN s.chats : s.chats[i].sender # "System"}

\* a write by uid has produced the stored document s (w is the same write applied
\* to uid's own copy): every listener that is not behind receives the snapshot
EarlierPublish(uid, s, w) ==
    /\ eroom' = s
    /\ local' = [u \in Users |->
          IF u = uid /\ u \in lag THEN w
          ELSE IF u \in lag \/ (local[u] = NoRoom /\ u # uid) THEN local[u]
          ELSE s]

\* createRoom: setDoc(rRef, initialRoom), then the listener subscribes
EarlierInit ==
    /\ \E uid \in Users :
         /\ eroom = earlier_initialRoom(uid)
         /\ local = [u \in Users |-> IF u = uid THEN eroom ELSE NoRoom]
    /\ room = NoRoom
    /\ adv = [u \in Users |-> NoRoom]
    /\ pend = NoWrite
    /\ now = 1
    /\ games = 0
    /\ races = 0
    /\ lag = {}
    /\ mhost = Null
    /\ mstate = getInitialState
    /\ mview = [g \in Peers |-> getInitialState]
    /\ mconn = [g \in Peers |-> "idle"]
    /\ mbox = [g \in Peers |-> <<>>]
    /\ mlag = {}
    /\ mtimer = FALSE
    /\ mgames = 0
    /\ mraces = 0
    /\ mdup = {}
    /\ macks = {}
    /\ advances = NoAdvances

\* uid's listener falls behind
EarlierLag(uid) ==
    /\ local[uid] # NoRoom
    /\ uid \notin lag
    /\ races < MaxRaces
    /\ lag' = lag \cup {uid}
    /\ races' = races + 1
    /\ UNCHANGED <<room, local, adv, pend, now, games>>
    /\ UNCHANGED <<meshVars, advances, eroom>>

\* the store delivers its current snapshot to the listener of uid: setRoom(rData)
EarlierDeliver(uid) ==
    /\ uid \in lag
    /\ lag' = lag \ {uid}
    /\ local' = [local EXCEPT ![uid] = eroom]
    /\ UNCHANGED <<room, adv, pend, now, games, races>>
    /\ UNCHANGED <<meshVars, advances, eroom>>

\* JOIN with the room code
EarlierJoin(uid) ==
    /\ local[uid] = NoRoom
    /\ eroom # NoRoom
    /\ EarlierPublish(uid, earlier_joinRoom(eroom, uid), NoRoom)
    /\ UNCHANGED <<room, adv, pend, now, games, races, lag>>
    /\ UNCHANGED <<meshVars, advances>>

\* chat form: the recipient is one of the other players of the local copy
EarlierChat(uid, recipient) ==
    /\ local[uid] # NoRoom
    /\ recipient \in DOMAIN local[uid].players \ {uid}
    /\ Cardinality(UserChats(eroom)) < MaxChats
    /\ EarlierPublish(uid, earlier_sendChat(eroom, uid, recipient, now),
                            earlier_sendChat(local[uid], uid, recipient, now))
    /\ now' = now + 1
    /\ UNCHANGED <<room, adv, pend, games, races, lag>>
    /\ UNCHANGED <<meshVars, advances>>

\* SWIPE TO START: shown in the lobby
EarlierStart(uid) ==
    /\ local[uid] # NoRoom
    /\ local[uid].state = "lobby"
    /\ games < MaxGames
    /\ \E imposterId \in DOMAIN local[uid].players,
          order \in Perms(DOMAIN local[uid].players),
          w \in Words :
            EarlierPublish(uid,
                earlier_startGame(local[uid], eroom, imposterId, order, w, now),
                earlier_startGame(local[uid], local[uid], imposterId, order, w, now))
    /\ now' = now + 1
    /\ games' = games + 1
    /\ UNCHANGED <<room, adv, pend, races, lag>>
    /\ UNCHANGED <<meshVars, advances>>

----------------------------------------------------------------------------
(* Specifications *)

DocIdle ==
    /\ room = NoRoom
    /\ local = [u \in Users |-> NoRoom]
    /\ adv = [u \in Users |-> NoRoom]
    /\ pend = NoWrite
    /\ now = 0
    /\ games = 0
    /\ races = 0
    /\ lag = {}

MeshIdle ==
    /\ mhost = Null
    /\ mstate = getInitialState
    /\ mview = [g \in Peers |-> getInitialState]
    /\ mconn = [g \in Peers |-> "idle"]
    /\ mbox = [g \in Peers |-> <<>>]
    /\ mlag = {}
    /\ mtimer = FALSE
    /\ mgames = 0
    /\ mraces = 0
    /\ mdup = {}
    /\ macks = {}

DocInit == DocIdle /\ MeshIdle /\ advances = NoAdvances /\ eroom = NoRoom

DocNext ==
    \/ \E u \in Users : CreateRoom(u)
    \/ \E u \in Users : Lag(u)
    \/ \E u \in Users : Deliver(u)
    \/ ApplyResult
    \/ \E u \in Users : OpenRoom(u)
    \/ \E u \in Users : JoinRoom(u)
    \/ \E u \in Users : LeaveRoom(u)
    \/ \E u \in Users, n \in 1..3 : SetImposterCount(u, n)
    \/ \E u \in Users : StartGame(u)
    \/ \E u \in Users, v \in Users : SendChat(u, v)
    \/ \E u \in Users : RevealRole(u)
    \/ \E u \in Users : PassTurn(u)
    \/ \E u \in Users : NextTurn(u)
    \/ \E u \in Users, t \in Users : CastVote(u, t)
    \/ \E u \in Users : ResetGame(u)

SpecDoc == DocInit /\ [][DocNext]_vars

MeshInit == DocIdle /\ MeshIdle /\ advances = NoAdvances /\ eroom = NoRoom

MeshNext ==
    \/ \E p \in Peers : Initialize(p)
    \/ \E g \in Peers : Connect(g)
    \/ \E g \in Peers : JoinAgain(g)
    \/ \E g \in Peers : Receive(g)
    \/ \E g \in Peers : Close(g)
    \/ \E g \in Peers : MeshLag(g)
    \/ \E g \in Peers : MeshDeliver(g)
    \/ \E g \in Peers : GuestChat(g)
    \/ \E g \in Peers : GuestPass(g)
    \/ \E g \in Peers, t \in Peers : GuestVote(g, t)
    \/ HostChat
    \/ HostStart
    \/ HostReveal
    \/ RevealTimer
    \/ HostPass
    \/ \E t \in Peers : HostVote(t)
    \/ PlayAgain

SpecMesh == MeshInit /\ [][MeshNext]_vars

TallyInit == TallyRoom /\ MeshIdle /\ advances = NoAdvances /\ eroom = NoRoom

TallyNext == Tally \/ TallyFlat \/ ApplyResult

SpecTally == TallyInit /\ [][TallyNext]_vars

TurnsNext == DocAdvance \/ MeshAdvance

SpecTurns == TurnsInit /\ [][TurnsNext]_vars

(* Scenario: a room that is played again.  u1 has created the room and started *)
(* a one-player game, u2 has the room open and has pressed PASS on u1: its     *)
(* passTurn saw a majority and its nextTurn() call has not written yet.  One   *)
(* more game fits the bound.                                                   *)

AgainInit ==
    /\ LET r == StartedRoom(<<"u1">>, {"u1"})
       IN  /\ room = passTurn(r, r, "u1", "u2")
           /\ local = [u \in Users |-> View(room)]
           /\ adv = [u \in Users |-> IF u = "u2" THEN View(r) ELSE NoRoom]
    /\ pend = NoWrite
    /\ now = 1
    /\ games = MaxGames - 1
    /\ races = 0
    /\ lag = {}
    /\ MeshIdle
    /\ advances = NoAdvances
    /\ eroom = NoRoom

AgainNext ==
    \/ \E u \in Users : Lag(u)
    \/ \E u \in Users : Deliver(u)
    \/ ApplyResult
    \/ \E u \in Users : StartGame(u)
    \/ \E u \in Users : PassTurn(u)
    \/ \E u \in Users : NextTurn(u)
    \/ \E u \in Users, t \in Users : CastVote(u, t)
    \/ \E u \in Users : ResetGame(u)

SpecAgain == AgainInit /\ [][AgainNext]_vars

(* Scenario: the mesh room of three peers when the vote begins, the guests     *)
(* connected and in sync.  One more game fits the bound.  The host keeps      *)
(* running: it handles every ACTION that arrives and its timer fires.         *)

MeshSeats == <<"p1", "p2", "p3">>

\* the host's state after k calls of GameManager.nextTurn()
RECURSIVE MeshAfter(_, _)
MeshAfter(s, k) == IF k = 0 THEN s ELSE MeshAfter(GM_nextTurn(s), k - 1)

MeshVoting(ids) == MeshAfter(MeshStarted(ids), Len(ids) * MeshMaxRounds)

VoteInit ==
    /\ DocIdle
    /\ mhost = MeshSeats[1]
    /\ mstate = MeshVoting(MeshSeats)
    /\ mview = [g \in Peers |-> IF g = mhost THEN getInitialState ELSE mstate]
    /\ mconn = [g \in Peers |-> IF g = mhost THEN "idle" ELSE "open"]
    /\ mbox = [g \in Peers |-> <<>>]
    /\ mlag = {}
    /\ mtimer = FALSE
    /\ mgames = MaxGames - 1
    /\ mraces = 0
    /\ mdup = {}
    /\ macks = {}
    /\ advances = NoAdvances
    /\ eroom = NoRoom

VoteNext ==
    \/ \E g \in Peers : Receive(g)
    \/ \E g \in Peers : Close(g)
    \/ \E g \in Peers : GuestPass(g)
    \/ \E g \in Peers, t \in Peers : GuestVote(g, t)
    \/ HostStart
    \/ HostReveal
    \/ RevealTimer
    \/ HostPass
    \/ \E t \in Peers : HostVote(t)
    \/ PlayAgain

SpecVote ==
    /\ VoteInit
    /\ [][VoteNext]_vars
    /\ \A g \in Peers : WF_vars(Receive(g))
    /\ WF_vars(RevealTimer)

(* Scenario: the tally of a later game.  Three or four players have played a   *)
(* game, the host has pressed PLAY AGAIN and started the next one, the last    *)
(* round is over and every player has voted; at most one player scored in the  *)
(* game before (an imposter that evaded).                                      *)

ScoresInit ==
    /\ \E n \in {3, 4} :
         LET ids == SubSeq(Seats, 1, n)
         IN  \E votes \in [Range(ids) -> Range(ids)],
                imps \in {S \in SUBSET Range(ids) : Cardinality(S) \in 1..(n \div 2)},
                scorer \in Range(ids) \cup {Null} :
                  room = [StartedRoom(ids, imps) EXCEPT
                            !.state = "voting",
                            !.round = MaxRounds + 1,
                            !.votes = votes,
                            !.players = [id \in Range(ids) |->
                                [@[id] EXCEPT
                                    !.score = IF id = scorer THEN 3 ELSE 0,
                                    !.lastScoreGain = IF id = scorer THEN 3 ELSE 0]]]
    /\ local = [u \in Users |-> NoRoom]
    /\ adv = [u \in Users |-> NoRoom]
    /\ pend = NoWrite
    /\ now = 1
    /\ games = 1
    /\ races = 0
    /\ lag = {}
    /\ MeshIdle
    /\ advances = NoAdvances
    /\ eroom = NoRoom

ScoresNext == Tally \/ ApplyResult

SpecScores == ScoresInit /\ [][ScoresNext]_vars

EarlierNext ==
    \/ \E u \in Users : EarlierLag(u)
    \/ \E u \in Users : EarlierDeliver(u)
    \/ \E u \in Users : EarlierJoin(u)
    \/ \E u \in Users, v \in Users : EarlierChat(u, v)
    \/ \E u \in Users : EarlierStart(u)

SpecEarlier == EarlierInit /\ [][EarlierNext]_vars

(* Scenario: the life of one room from its creation on, in one of the two     *)
(* variants: createRoom has written the room document, or the mesh host's    *)
(* peer is open.  The handlers that write players, and the ones that lead    *)
(* from one to the next, run in every interleaving.                          *)

HostInit ==
    /\ \/ /\ \E uid \in Users :
               /\ room = initialRoom(uid)
               /\ local = [u \in Users |-> IF u = uid THEN View(room) ELSE NoRoom]
          /\ mhost = Null
          /\ mstate = getInitialState
       \/ /\ room = NoRoom
          /\ local = [u \in Users |-> NoRoom]
          /\ \E p \in Peers :
               /\ mhost = p
               /\ mstate = [getInitialState EXCEPT !.players = <<MeshPlayer(p, TRUE)>>]
    /\ adv = [u \in Users |-> NoRoom]
    /\ pend = NoWrite
    /\ now = 0
    /\ games = 0
    /\ races = 0
    /\ lag = {}
    /\ mview = [g \in Peers |-> getInitialState]
    /\ mconn = [g \in Peers |-> "idle"]
    /\ mbox = [g \in Peers |-> <<>>]
    /\ mlag = {}
    /\ mtimer = FALSE
    /\ mgames = 0
    /\ mraces = 0
    /\ mdup = {}
    /\ macks = {}
    /\ advances = NoAdvances
    /\ eroom = NoRoom

HostNext ==
    \/ \E u \in Users : Lag(u)
    \/ \E u \in Users : Deliver(u)
    \/ ApplyResult
    \/ \E u \in Users : JoinRoom(u)
    \/ \E u \in Users : LeaveRoom(u)
    \/ \E u \in Users : StartGame(u)
    \/ \E u \in Users : PassTurn(u)
    \/ \E u \in Users : NextTurn(u)
    \/ \E u \in Users, t \in Users : CastVote(u, t)
    \/ \E u \in Users : ResetGame(u)
    \/ \E g \in Peers : Connect(g)
    \/ \E g \in Peers : Receive(g)
    \/ \E g \in Peers : Close(g)
    \/ \E g \in Peers : GuestPass(g)
    \/ \E g \in Peers, t \in Peers : GuestVote(g, t)
    \/ HostStart
    \/ HostReveal
    \/ RevealTimer
    \/ HostPass
    \/ \E t \in Peers : HostVote(t)
    \/ PlayAgain

SpecHost == HostInit /\ [][HostNext]_vars

RoundsNext ==
    \/ \E u \in Voters : DocPass(u)
    \/ \E u \in Voters : EarlierPass(u)
    \/ \E u \in Voters : EarlierDone(u)
    \/ \E u \in Voters : MeshPass(u)

SpecRounds == RoundsInit /\ [][RoundsNext]_vars

----------------------------------------------------------------------------
(* Document-store variant: properties *)

InGame(s) == s # NoRoom /\ s.state \in {"playing", "voting", "result"}

\* C1: in every state of the playing, voting and result phases there is at
\* least one imposter and the imposters are strictly fewer than half of the
\* players: 1 <= |imposterIds| < |players| / 2.
C1_ImposterMinority ==
    InGame(room) =>
        /\ 1 <= Cardinality(room.imposterIds)
        /\ 2 * Cardinality(room.imposterIds) < Cardinality(DOMAIN room.players)

\* C2: in every state of the playing phase currentTurnIndex is an index of
\* turnOrder (0 <= currentTurnIndex < |turnOrder|) and turnOrder is a
\* permutation of the keys of players.
C2_TurnOrderPermutation ==
    (room # NoRoom /\ room.state = "playing") =>
        /\ 0 <= room.currentTurnIndex
        /\ room.currentTurnIndex < Len(room.turnOrder)
        /\ Range(room.turnOrder) = DOMAIN room.players
        /\ Len(room.turnOrder) = Cardinality(DOMAIN room.players)

----------------------------------------------------------------------------
(* calculateResults and the rollover: properties *)

\* the ids that received strictly more votes than every other id
StrictMax(votes) ==
    LET c == VoteCounts(votes)
    IN  {t \in DOMAIN c : \A x \in DOMAIN c \ {t} : c[t] > c[x]}

\* C3: the tally's votedOutId is the one target with strictly more votes than
\* every other target, and it is null when two or more targets tie for the
\* maximum.
C3_StrictMaximum ==
    pend # NoWrite =>
        IF StrictMax(room.votes) = {} THEN pend.votedOutId = Null
        ELSE StrictMax(room.votes) = {pend.votedOutId}

C3_Witness ==
    /\ pend # NoWrite
    /\ pend.votedOutId = Null
    /\ Cardinality(Range(room.votes)) = 2

\* C4: the tally is deterministic: whatever the order in which the vote counts
\* are iterated, votedOutId, the caught flag and the winner message are the
\* ones of the result that was written.
C4_OrderIndependent ==
    pend # NoWrite =>
        \A order \in Perms(Range(room.votes)) :
            LET v == VotedOutId(room.votes, order)
            IN  /\ v = pend.votedOutId
                /\ WinMsg(room, v) = pend.entry.result
                /\ SystemChat(WinMsg(room, v), pend.chat.time) = pend.chat

C4_Witness ==
    /\ pend # NoWrite
    /\ Cardinality(Range(room.votes)) = 3
    /\ pend.votedOutId \in room.imposterIds

\* the advances after which the last round is over
LastAdvance(n, m) == n * m

\* C5: starting at round 1, turn 0, with n players and maxRounds m, the phase
\* is still active play after each of the first n*m - 1 turn advances and is
\* voting exactly at the n*m-th advance, in the document-store nextTurn and in
\* the mesh GameManager.nextTurn alike.
C5_Rollover ==
    /\ advances.doc < LastAdvance(Len(room.turnOrder), room.maxRounds)
          => room.state = "playing"
    /\ advances.doc = LastAdvance(Len(room.turnOrder), room.maxRounds)
          => room.state = "voting"
    /\ advances.mesh < LastAdvance(Len(mstate.players), mstate.maxRounds)
          => mstate.state = "PLAYING"
    /\ advances.mesh = LastAdvance(Len(mstate.players), mstate.maxRounds)
          => mstate.state = "VOTING"

C5_Witness ==
    /\ Len(room.turnOrder) = 4
    /\ advances.doc = LastAdvance(4, room.maxRounds)
    /\ advances.mesh = LastAdvance(4, mstate.maxRounds)
    /\ room.state = "voting"
    /\ mstate.state = "VOTING"

\* the voters of r whose vote names id
VotersFor(r, id) == {v \in DOMAIN r.votes : r.votes[v] = id}

\* four players, one imposter, every player has voted, three of them for the
\* imposter and one for somebody else
ThreeToOne(r) ==
    /\ Cardinality(DOMAIN r.players) = 4
    /\ Cardinality(r.imposterIds) = 1
    /\ DOMAIN r.votes = DOMAIN r.players
    /\ \A imp \in r.imposterIds : Cardinality(VotersFor(r, imp)) = 3

\* the result write is applied to the room r, giving r2: the phase is result, the
\* imposter is caught and historyLog has one more entry, which holds the word
\* and the imposter's name
CaughtAndLogged(r, r2) ==
    /\ r2.state = "result"
    /\ Len(r2.historyLog) = Len(r.historyLog) + 1
    /\ LET e == r2.historyLog[Len(r2.historyLog)]
       IN  /\ e.word = r.word
           /\ e.imposters = {Name(imp) : imp \in r.imposterIds}
           /\ \A imp \in r.imposterIds : e.result = <<"Crew Wins", Name(imp)>>

\* C9 (as stated): with 4 players, 1 imposter and all votes in, 3 for the imposter
\* and 1 for another player, the tally catches the imposter, the score of each
\* of the 3 who voted for the imposter strictly increases, the phase becomes
\* result and historyLog grows by exactly one entry holding the word and the
\* imposter's name.
C9_AllThreeGain ==
    [][(room.state = "voting" /\ room'.state = "result" /\ ThreeToOne(room)) =>
          /\ CaughtAndLogged(room, room')
          /\ \A imp \in room.imposterIds : \A v \in VotersFor(room, imp) :
                room'.players[v].score > room.players[v].score]_vars

\* C9 (amended): the same, for each of the voters for the imposter that is not
\* the imposter itself; an imposter that voted for itself gains nothing when it
\* is caught.
C9_CrewVotersGain ==
    [][(room.state = "voting" /\ room'.state = "result" /\ ThreeToOne(room)) =>
          /\ CaughtAndLogged(room, room')
          /\ \A imp \in room.imposterIds : \A v \in VotersFor(room, imp) \ {imp} :
                room'.players[v].score > room.players[v].score
          /\ \A imp \in room.imposterIds :
                room'.players[imp].score = room.players[imp].score]_vars

C9_Witness ==
    /\ room.state = "result"
    /\ ThreeToOne(room)
    /\ Len(room.historyLog) = 1
    /\ \E v \in DOMAIN room.players : room.players[v].score > 0

----------------------------------------------------------------------------
(* Room life cycle: properties *)

\* C6: RESET_ROOM ("play again") returns the room to the lobby and clears
\* round, votes, the imposter ids, the word, turnOrder and currentTurnIndex,
\* and leaves every score and the chat and history logs as they were; in the
\* document-store resetGame and in the mesh play-again alike.
C6_ResetClears ==
    [][/\ (room # NoRoom /\ room.state = "result" /\ room'.state = "lobby") =>
            /\ room'.round = 1
            /\ room'.votes = EmptyMap
            /\ room'.imposterIds = {}
            /\ room'.word = ""
            /\ room'.turnOrder = <<>>
            /\ room'.currentTurnIndex = 0
            /\ room'.players = room.players
            /\ room'.chats = room.chats
            /\ room'.historyLog = room.historyLog
       /\ (mstate.state = "RESULTS" /\ mstate'.state = "LOBBY") =>
            /\ mstate'.round = 1
            /\ \A i \in DOMAIN mstate'.players : mstate'.players[i].votedFor = Null
            /\ mstate'.imposterId = Null
            /\ mstate'.secretWord = ""
            /\ mstate'.currentTurnId = Null
            /\ \A i \in DOMAIN mstate'.players :
                  mstate'.players[i].score = mstate.players[i].score
            /\ mstate'.messages = mstate.messages]_vars

\* C7: a JOIN that arrives twice from the same sender leaves exactly one Player
\* record for that sender (as long as the sender's connection is open: closing
\* it removes the record).
C7_OneRecordPerSender ==
    /\ \A i, j \in DOMAIN mstate.players :
          mstate.players[i].id = mstate.players[j].id => i = j
    /\ \A g \in mdup : mconn[g] = "open" => g \in Ids(mstate)

C7_Witness ==
    \E g \in mdup : mconn[g] = "open" /\ g \in Ids(mstate) /\ mbox[g] = <<>>

\* C8: a JOIN by a participant that is a player already changes nothing: its
\* score, lastScoreGain, role, passedTurn, isRoleRevealed and the rest of the
\* room are as before, in every phase.
C8_JoinExistingNoOp ==
    [][/\ \A u \in Users :
            (room # NoRoom /\ u \in DOMAIN room.players /\ JoinRoom(u))
                => room' = room
       /\ \A g \in Peers :
            (mbox[g] # <<>> /\ Head(mbox[g]).action = "JOIN"
                /\ Head(mbox[g]).senderId \in Ids(mstate) /\ Receive(g))
                => mstate' = mstate]_vars

PhaseOrder ==
    {<<"none", "lobby">>, <<"lobby", "playing">>, <<"playing", "voting">>,
     <<"voting", "result">>, <<"result", "lobby">>,
     <<"LOBBY", "ROLES">>, <<"ROLES", "PLAYING">>, <<"PLAYING", "VOTING">>,
     <<"VOTING", "RESULTS">>, <<"RESULTS", "LOBBY">>}

\* C10: the phase starts at lobby and only ever moves lobby -> active play ->
\* voting -> result -> lobby, in the mesh variant and in the document-store
\* variant.
C10_PhaseOrder ==
    [][/\ room'.state # room.state => <<room.state, room'.state>> \in PhaseOrder
       /\ mstate'.state # mstate.state
             => <<mstate.state, mstate'.state>> \in PhaseOrder]_vars

----------------------------------------------------------------------------
(* Intents out of phase, and who writes: properties *)

\* C12: a VOTE takes effect only in the voting phase: a VOTE that reaches the
\* room in lobby, active play or result records no vote and changes no phase
\* (castVote on the room document, VOTE on the mesh host).
C12_VoteOnlyInVoting ==
    [][/\ \A u \in Users, t \in Users :
            (room # NoRoom /\ room.state # "voting" /\ CastVote(u, t))
                => room' = room
       /\ \A g \in Peers :
            (mbox[g] # <<>> /\ Head(mbox[g]).action = "VOTE"
                /\ mstate.state # "VOTING" /\ Receive(g))
                => mstate' = mstate]_vars

\* C13: in every step that changes the phase from voting to result, every
\* key of players is a key of votes (every mesh player has a votedFor).
C13_ResultOnlyWhenAllVoted ==
    [][/\ (room # NoRoom /\ room.state = "voting" /\ room'.state = "result")
            => DOMAIN room.players \subseteq DOMAIN room.votes
       /\ (mstate.state = "VOTING" /\ mstate'.state = "RESULTS")
            => \A i \in DOMAIN mstate'.players :
                  mstate'.players[i].votedFor # Null]_vars

\* C16: only the host mutates the room snapshot: no step of a participant
\* other than the host changes the room document (in the mesh variant only
\* the host's GameManager handles ACTION messages).
C16_OnlyHostWrites ==
    [][\A u \in Users :
          (/\ room # NoRoom
           /\ u # room.hostId
           /\ \/ JoinRoom(u)
              \/ RevealRole(u)
              \/ PassTurn(u)
              \/ NextTurn(u)
              \/ \E t \in Users : SendChat(u, t) \/ CastVote(u, t))
          => room' = room]_vars

----------------------------------------------------------------------------
(* Mesh variant: publishing *)

\* every ACTION and every STATE_SYNC that was sent has been delivered
Quiet == InFlight = 0 /\ mlag = {}

\* C17: the host follows every change of its state with a STATE_SYNC to every
\* open connection: once everything sent is delivered, the state of each
\* connected guest equals the host's, and a guest whose JOIN was accepted holds
\* a state that contains its own player record.
C17_Converged ==
    /\ Quiet => \A g \in Peers : mconn[g] = "open" => mview[g] = mstate
    /\ \A g \in Peers :
          (mconn[g] = "open" /\ g \notin mlag /\ g \in Ids(mstate))
              => g \in Ids(mview[g])

C17_Witness ==
    /\ Quiet
    /\ mstate.state = "RESULTS"
    /\ mraces > 0
    /\ \E g \in Peers :
          mconn[g] = "open" /\ mview[g] = mstate /\ g \in Ids(mview[g])

----------------------------------------------------------------------------
(* Pass acknowledgements: properties *)

\* the turn pointer of the room document moved
Advanced(r, r2) ==
    <<r2.currentTurnIndex, r2.round, r2.state>> # <<r.currentTurnIndex, r.round, r.state>>

\* the turn pointer of the mesh state moved
MeshAdvanced(s, s2) ==
    <<s2.currentTurnId, s2.round, s2.state>> # <<s.currentTurnId, s.round, s.state>>

\* the players among acks are strictly more than half of the players
StrictMajority(acks, players) ==
    2 * Cardinality(acks \cap players) > Cardinality(players)

\* C15: a PASS_TURN advances the turn if and only if, counting it, the distinct
\* players who acknowledged the current turn-holder are strictly more than
\* half of the players, whatever the number of players.
C15_StrictMajorityPass ==
    [][/\ \A u \in Voters : DocPass(u) =>
            (Advanced(room, room') <=>
                StrictMajority(room.players[TurnHolder(room)].passedTurn \cup {u},
                               DOMAIN room.players))
       /\ \A u \in Voters : EarlierPass(u) =>
            (Advanced(eroom, eroom') <=>
                StrictMajority(eroom.players[TurnHolder(eroom)].passedTurn \cup {u},
                               DOMAIN eroom.players))
       /\ \A u \in Voters : MeshPass(u) =>
            (MeshAdvanced(mstate, mstate') <=>
                StrictMajority(macks \cup {u}, Ids(mstate)))]_vars

\* C19: a second PASS_TURN from a sender that has acknowledged the current
\* turn-holder already changes no acknowledgement count and advances no turn.
C19_DuplicatePassIgnored ==
    [][/\ \A u \in Voters :
            (room # NoRoom /\ room.state = "playing"
                /\ u \in room.players[TurnHolder(room)].passedTurn /\ DocPass(u))
                => room' = room
       /\ \A u \in Voters :
            (eroom # NoRoom /\ eroom.state = "playing"
                /\ u \in eroom.players[TurnHolder(eroom)].passedTurn /\ EarlierPass(u))
                => eroom' = eroom
       /\ \A u \in Voters : (u \in macks /\ MeshPass(u)) => mstate' = mstate]_vars

\* C20: after every turn advance the pass acknowledgements (passedTurn,
\* passedCount) of every player are empty.
C20_AcksClearedOnAdvance ==
    [][/\ (room # NoRoom /\ Advanced(room, room')) =>
            \A id \in DOMAIN room'.players : room'.players[id].passedTurn = {}
       /\ (eroom # NoRoom /\ Advanced(eroom, eroom')) =>
            \A id \in DOMAIN eroom'.players : eroom'.players[id].passedTurn = {}
       /\ (mhost # Null /\ MeshAdvanced(mstate, mstate')) =>
            \A i \in DOMAIN mstate'.players : mstate'.players[i].passedCount = 0]_vars

----------------------------------------------------------------------------
(* Starting a game: properties *)

\* C11: START_GAME takes effect only in the lobby: a START_GAME that reaches
\* the room in another phase, from any sender, leaves the snapshot (word,
\* imposters, roles, turn pointer, votes, phase) unchanged.
C11_StartOnlyInLobby ==
    [][/\ \A u \in Users :
            (room # NoRoom /\ room.state # "lobby" /\ StartGame(u)) => room' = room
       /\ (mstate.state # "LOBBY" /\ HostStart) => mstate' = mstate]_vars

\* C18: right after START_GAME is applied round is 1, the turn pointer is at
\* the first position, no vote is recorded and the phase is active play, in
\* the first game and in every game started after "play again".
C18_FreshGame ==
    [][/\ \A u \in Users : StartGame(u) =>
            /\ room'.round = 1
            /\ room'.currentTurnIndex = 0
            /\ room'.votes = EmptyMap
            /\ room'.state = "playing"
       /\ HostStart =>
            /\ mstate'.round = 1
            /\ mstate'.currentTurnId = mstate'.players[1].id
            /\ \A i \in DOMAIN mstate'.players : mstate'.players[i].votedFor = Null
            /\ mstate'.state \in {"ROLES", "PLAYING"}]_vars

----------------------------------------------------------------------------
(* The tally: liveness *)

AllVoted(s) ==
    s.players # <<>> /\ \A i \in DOMAIN s.players : s.players[i].votedFor # Null

\* C14: whenever the phase is voting and every current player has a recorded
\* vote, the phase becomes result, with no further vote, as long as the
\* participant that tallies keeps running.
C14_TallyEventually ==
    /\ (room.state = "voting" /\ DOMAIN room.players \subseteq DOMAIN room.votes)
          ~> (room.state = "result")
    /\ (mstate.state = "VOTING" /\ AllVoted(mstate)) ~> (mstate.state = "RESULTS")

----------------------------------------------------------------------------
(* The outcome and the scores of a tally: properties *)

\* C21: at the tally the imposters are caught (crew wins) if and only if one
\* target has strictly more votes than every other and that target is an
\* imposter; in every other case, every tie included, the outcome is an
\* imposter win, each imposter receives the evade award (3 in the refined
\* scoring, 20 in the flat scoring) and no crew member receives the flat
\* scoring's crew-win award.
C21_OutcomeRule ==
    [][(Tally \/ TallyFlat) =>
          LET caught == pend'.entry.result[1] = "Crew Wins"
              top == StrictMax(room.votes)
              gain == [id \in DOMAIN room.players |-> pend'.players[id].lastScoreGain]
          IN  /\ caught <=> (top # {} /\ top \subseteq room.imposterIds)
              /\ caught => pend'.chat.msg = <<"Crew Wins", Name(pend'.votedOutId)>>
              /\ ~caught =>
                    /\ pend'.entry.result[1] = "Imposter Wins"
                    /\ pend'.chat.msg[1] = "Imposter Wins"
                    /\ Tally => \A id \in room.imposterIds : gain[id] = 3
                    /\ TallyFlat =>
                          /\ \A id \in room.imposterIds : gain[id] = 20
                          /\ \A id \in DOMAIN room.players \ room.imposterIds :
                                gain[id] = 0]_vars

\* a two-way tie with an imposter among the tied targets: the imposters win
C21_Witness ==
    /\ pend # NoWrite
    /\ StrictMax(room.votes) = {}
    /\ Range(room.votes) \cap room.imposterIds # {}
    /\ Cardinality(room.imposterIds) = 2
    /\ pend.entry.result[1] = "Imposter Wins"
    /\ \A id \in room.imposterIds : pend.players[id].lastScoreGain = 3

\* the gain the refined scoring rule gives the player id for the votes of r
RuleGain(r, id) ==
    LET out == StrictMax(r.votes)
        caught == out # {} /\ out \subseteq r.imposterIds
        bonus == IF /\ r.votes[id] \in out
                    /\ Cardinality(VotersFor(r, r.votes[id])) >=
                          (Cardinality(DOMAIN r.players) \div 2) + 1
                 THEN 1 ELSE 0
    IN  IF id \notin r.imposterIds
        THEN (IF r.votes[id] \in r.imposterIds THEN 2 ELSE -1) + bonus
        ELSE IF caught THEN 0 ELSE 3

\* C22: refined scoring: the tally gives every player lastScoreGain as the
\* rule says (a non-imposter +2 for a vote for an imposter, -1 for a vote for a
\* non-imposter, +1 more for a vote for votedOutId when votedOutId received at
\* least floor(|players|/2)+1 votes; an imposter +3 when the imposters were not
\* caught and 0 otherwise), and on entering result every player's new score is
\* the old score plus lastScoreGain.
C22_RefinedScoring ==
    [][/\ Tally => \A id \in DOMAIN room.players :
            /\ pend'.players[id].lastScoreGain = RuleGain(room, id)
            /\ pend'.players[id].score = room.players[id].score + RuleGain(room, id)
       /\ ApplyResult =>
            /\ room'.state = "result"
            /\ DOMAIN room'.players = DOMAIN room.players
            /\ \A id \in DOMAIN room.players :
                  /\ room'.players[id].lastScoreGain = RuleGain(room, id)
                  /\ room'.players[id].score =
                        room.players[id].score + room'.players[id].lastScoreGain]_vars

\* a result in which a non-imposter that scored before lost a point for a wrong
\* vote, another got the vote and the majority bonus, and the imposter was caught
C22_Witness ==
    /\ room.state = "result"
    /\ \E a, b, c \in DOMAIN room.players :
          /\ a \notin room.imposterIds /\ b \notin room.imposterIds
          /\ c \in room.imposterIds
          /\ room.players[a].score = 2 /\ room.players[a].lastScoreGain = -1
          /\ room.players[b].lastScoreGain = 3
          /\ room.players[c].lastScoreGain = 0

----------------------------------------------------------------------------
(* Roles, imposters and votes against the players map: properties *)

\* C23: in every snapshot of the playing, voting and result phases a player's
\* role is 'Imposter' if and only if its id is in imposterIds, and every
\* other player has the role 'Crew' (or none yet, when it joined after
\* START_GAME).
C23_RoleConsistency ==
    InGame(room) =>
        \A id \in DOMAIN room.players :
            /\ room.players[id].role = "Imposter" <=> id \in room.imposterIds
            /\ room.players[id].role \in {"Imposter", "Crew", ""}

\* C24: in every snapshot the imposter ids are ids of current players:
\* imposterIds is a subset of the keys of players, and in the mesh variant
\* imposterId is null or the id of a player of the host's state, also after a
\* guest's connection closes during a game.
C24_ImposterIsPlayer ==
    /\ room # NoRoom => room.imposterIds \subseteq DOMAIN room.players
    /\ mstate.imposterId = Null \/ mstate.imposterId \in Ids(mstate)

\* C25: document-store variant: in every snapshot every key of votes is a key
\* of players, also when a signed-in user that opened the room through its
\* link, and is subscribed to it, has not been added to players.
C25_VotersArePlayers ==
    room # NoRoom => DOMAIN room.votes \subseteq DOMAIN room.players

\* C26: whenever the phase is lobby the secret word is empty and there is no
\* imposter (imposterIds empty; imposterId null in the mesh variant), in the
\* first lobby and in every lobby reached through "play again".
C26_LobbyIsClean ==
    /\ (room # NoRoom /\ room.state = "lobby")
          => (room.word = "" /\ room.imposterIds = {})
    /\ mstate.state = "LOBBY"
          => (mstate.secretWord = "" /\ mstate.imposterId = Null)

----------------------------------------------------------------------------
(* The logs: properties *)

\* the log `after` is the log `before` with exactly one more entry at its end
OneMore(before, after) ==
    Len(after) = Len(before) + 1 /\ SubSeq(after, 1, Len(before)) = before

IsPrefix(before, after) ==
    Len(before) <= Len(after) /\ SubSeq(after, 1, Len(before)) = before

\* C28: historyLog and the chat log are append-only: in every step of every
\* participant the log of the new snapshot has the log of the old one as a
\* prefix (chats and historyLog of the room document, messages of the mesh
\* state).
C28_LogsAppendOnly ==
    [][/\ (room # NoRoom /\ room' # NoRoom) =>
            /\ IsPrefix(room.chats, room'.chats)
            /\ IsPrefix(room.historyLog, room'.historyLog)
       /\ (eroom # NoRoom /\ eroom' # NoRoom) =>
            /\ IsPrefix(eroom.chats, eroom'.chats)
            /\ IsPrefix(eroom.historyLog, eroom'.historyLog)
       /\ IsPrefix(mstate.messages, mstate'.messages)]_vars

----------------------------------------------------------------------------
(* Handlers that write in two steps: properties *)

\* a room document in active play whose turn-holder has acknowledgements from
\* more than half of the players
HalfUpdated(r) ==
    /\ r # NoRoom
    /\ r.state = "playing"
    /\ r.currentTurnIndex + 1 \in DOMAIN r.turnOrder
    /\ TurnHolder(r) \in DOMAIN r.players
    /\ 2 * Cardinality(r.players[TurnHolder(r)].passedTurn) >
          Cardinality(DOMAIN r.players)

\* the same for a mesh state
MeshHalfUpdated(s) ==
    /\ s.state = "PLAYING"
    /\ s.currentTurnId \in Ids(s)
    /\ 2 * s.players[FindIndex(s, s.currentTurnId)].passedCount > Len(s.players)

\* C29: no participant ever observes a snapshot in active play in which the
\* acknowledgements recorded for the current turn-holder exceed half the
\* player count while the turn has not advanced (the local copy of a
\* participant of the room document, the state of the mesh host or a guest).
C29_NoHalfUpdate ==
    /\ \A u \in Users : ~HalfUpdated(local[u])
    /\ ~MeshHalfUpdated(mstate)
    /\ \A g \in Peers : ~MeshHalfUpdated(mview[g])

----------------------------------------------------------------------------
(* The host: properties *)

\* the positions of the players of the mesh state that are marked as host
HostRecords(s) == {i \in DOMAIN s.players : s.players[i].isHost}

----------------------------------------------------------------------------
(* Confidentiality of the secret word *)

\* the words a game can be started with: two of them tell two runs apart
SecretWords == Words \cup {"Sushi"}

\* C31: a start of the game that differs only in the secret word delivers the
\* same snapshot to every imposter: the snapshot an imposter's replica receives
\* from the start is the one it would receive had any other word been chosen,
\* in the mesh (STATE_SYNC to a guest) and in the store (Room Listener)
C31_WordHidden ==
    [][/\ HostStart =>
            \A g \in Peers, w \in SecretWords :
                (g = mstate'.imposterId /\ mconn[g] = "open" /\ g \notin mlag) =>
                    mview'[g] = Rendered(GM_startGame(mstate, w, FindIndex(mstate, g)))
       /\ \A u \in Users :
            StartGame(u) =>
                \A v \in room'.imposterIds, w \in SecretWords :
                    (local[v] # NoRoom /\ v \notin lag) =>
                        local'[v] = View(startGame(local[u], room, room'.imposterIds,
                                                   room'.turnOrder, w, now))]_vars

----------------------------------------------------------------------------
(* Turn progress, durable joins and acknowledgements under stale writes *)

\* C32: within one game of the store variant the pair (round, currentTurnIndex)
\* never decreases lexicographically and the phase never returns from voting to
\* playing, whichever passTurn and nextTurn calls write from stale copies
C32_TurnsMonotone ==
    [][(/\ room # NoRoom
        /\ room.state \in {"playing", "voting"}
        /\ room'.state \in {"playing", "voting"}
        /\ ~\E u \in Users : StartGame(u))
       => /\ \/ room'.round > room.round
             \/ /\ room'.round = room.round
                /\ room'.currentTurnIndex >= room.currentTurnIndex
          /\ ~(room.state = "voting" /\ room'.state = "playing")]_vars

\* C33: a join is durable in the store variant: a participant whose joinRoom
\* write has been applied stays a key of players in every later document, also
\* when startGame, nextTurn or calculateResults write from a copy read before
\* the join
C33_JoinsDurable ==
    [][(room # NoRoom /\ room' # NoRoom)
       => DOMAIN room.players \subseteq DOMAIN room'.players]_vars

\* C34: no acknowledgement is lost in the store variant: a passTurn write keeps
\* the acknowledgements the store already holds for every player, so that two
\* participants who pass the same holder in the same turn are both in its
\* passedTurn once both writes are applied (no call of nextTurn is pending or
\* follows from the write)
C34_NoAckLost ==
    [][\A u \in Users :
          (PassTurn(u) /\ \A v \in Users : adv[v] = NoRoom /\ adv'[v] = NoRoom) =>
              \A t \in DOMAIN room.players :
                  room.players[t].passedTurn \subseteq room'.players[t].passedTurn]_vars

\* C35: a revealed role stays revealed in the store variant: isRoleRevealed of a
\* player, once true, is true until the next start of a game, in particular
\* across the turn advances of other participants, and the reveal writes no
\* other field (a join writes a new record and is set aside)
C35_RevealPersists ==
    [][/\ (room # NoRoom /\ ~\E u \in Users : StartGame(u) \/ JoinRoom(u)) =>
            \A id \in DOMAIN room.players \cap DOMAIN room'.players :
                room.players[id].isRoleRevealed => room'.players[id].isRoleRevealed
       /\ \A u \in Users :
            RevealRole(u) => room' = [room EXCEPT !.players[u].isRoleRevealed = TRUE]]_vars

----------------------------------------------------------------------------
(* Scoring *)

MeshScore(s, id) == s.players[FindIndex(s, id)].score

\* the gain calculateScores gives to id for the votes recorded in s
MeshGain(s, id) ==
    LET p == s.players[FindIndex(s, id)]
    IN  (IF id # s.imposterId /\ p.votedFor = s.imposterId THEN 10 ELSE 0)
          + (IF id = s.imposterId /\ p.votedFor # Null THEN 5 ELSE 0)

\* C36: the scoring is applied once per game: the step that ends the vote
\* (voting to result) adds the game's gain to every player's score, and no other
\* step changes a score: no turn advance, no vote, no snapshot or message that
\* reaches the host once the votes are complete
C36_ScoredOnce ==
    [][/\ room # NoRoom /\ room' # NoRoom =>
            \A id \in DOMAIN room.players \cap DOMAIN room'.players :
                room'.players[id].score =
                    IF room.state = "voting" /\ room'.state = "result"
                    THEN room.players[id].score + room'.players[id].lastScoreGain
                    ELSE room.players[id].score
       /\ \A id \in Ids(mstate) \cap Ids(mstate') :
            MeshScore(mstate', id) =
                IF mstate.state = "VOTING" /\ mstate'.state = "RESULTS"
                THEN MeshScore(mstate, id) + MeshGain(mstate', id)
                ELSE MeshScore(mstate, id)]_vars

----------------------------------------------------------------------------
(* Mesh variant: the turn-holder and the replicas *)

\* C37: in the mesh, whenever the phase is ROLES or PLAYING, currentTurnId is
\* the id of a current player, also after the connection of the turn-holder
\* has closed
C37_TurnHolderIsPlayer ==
    mstate.state \in {"ROLES", "PLAYING"} => mstate.currentTurnId \in Ids(mstate)

\* the kinds of ACTION a guest sends
ActionKinds == {"JOIN", "CHAT", "PASS_TURN", "VOTE"}

====
